---- MODULE Spec2Model ----
(***************************************************************************)
(* Model of script/main.py: the log analyser.                              *)
(*                                                                         *)
(* A Python str is a sequence of one-character strings.  A Counter is the  *)
(* sequence of its (key, count) items in insertion order, which is the     *)
(* order a dict iterates in and the order most_common breaks ties by.      *)
(* A re match object is the tuple match.groups(); None is the empty tuple. *)
(***************************************************************************)
EXTENDS Integers, Sequences, FiniteSets, TLC

VARIABLES
    pc,                  \* position in the __main__ block / parse_agent_logs
    file,                \* contents of the log file at log_file_path
    top_responses,       \* argument of analyze_logs
    top_errors,          \* argument of analyze_logs
    report,              \* value returned by analyze_logs
    log_lines,           \* report_str.splitlines()
    idx,                 \* index of the next element of log_lines
    match,               \* pattern.match(line) of the last line processed
    level_counter,
    ai_response_counter,
    error_counter,
    output_lines,
    final_output

vars == <<pc, file, top_responses, top_errors, report, log_lines, idx, match,
          level_counter, ai_response_counter, error_counter, output_lines,
          final_output>>

None == <<>>

-----------------------------------------------------------------------------
(* Characters and str methods                                              *)

Letters == {"A", "B", "C", "D", "E", "F", "G", "I", "L", "M", "N", "O", "R",
            "S", "T", "U", "W",
            "a", "b", "c", "d", "e", "f", "g", "i", "m", "n", "o", "p", "r",
            "s", "t", "u", "w", "x", "y"}

DigitChars == <<"0", "1", "2", "3", "4", "5", "6", "7", "8", "9">>

\* \s of the re module, on the characters a line of the model can hold
IsSpace(c) == c \in {" ", "\t"}

\* \w of the re module
IsWord(c) == c \in Letters \/ c = "_" \/ \E d \in 1..10 : DigitChars[d] = c

\* the character classes the code scans by: \s, \w, and what is not a line break
InClass(c, class) ==
    CASE class = "space" -> IsSpace(c)
      [] class = "word"  -> IsWord(c)
      [] class = "line"  -> c # "\n"

\* the first index j >= i of s that is outside the class (Len(s) + 1 if none)
SpanEnd(s, i, class) ==
    IF i > Len(s) THEN i
    ELSE CHOOSE j \in i..(Len(s) + 1) :
            /\ \A k \in i..(j - 1) : InClass(s[k], class)
            /\ j = Len(s) + 1 \/ ~InClass(s[j], class)

\* str.strip()
strip(s) ==
    LET a == SpanEnd(s, 1, "space")
        NonSpace == {k \in 1..Len(s) : ~IsSpace(s[k])}
    IN  IF NonSpace = {} THEN <<>>
        ELSE SubSeq(s, a, CHOOSE k \in NonSpace : \A m \in NonSpace : m <= k)

\* str.splitlines(): the pieces between line breaks, no piece after a final break
splitlines(s) ==
    LET Breaks == {k \in 1..Len(s) : s[k] = "\n"}
        Starts == {1} \cup {k + 1 : k \in Breaks}
        Used   == {a \in Starts : a <= Len(s)}
        EndOf(a) == SpanEnd(s, a, "line")
        Nth(r) == CHOOSE a \in Used : Cardinality({b \in Used : b < a}) = r - 1
    IN  [r \in 1..Cardinality(Used) |-> SubSeq(s, Nth(r), EndOf(Nth(r)) - 1)]

\* x in s, for str
Contains(s, x) ==
    \E p \in 1..(Len(s) - Len(x) + 1) : SubSeq(s, p, p + Len(x) - 1) = x

RECURSIVE join(_, _)
\* sep.join(parts)
join(sep, parts) ==
    IF parts = <<>> THEN <<>>
    ELSE IF Len(parts) = 1 THEN parts[1]
    ELSE parts[1] \o sep \o join(sep, Tail(parts))

RECURSIVE str(_)
\* str(n) of a non-negative int, as an f-string renders it
str(n) ==
    IF n < 10 THEN <<DigitChars[n + 1]>>
    ELSE str(n \div 10) \o <<DigitChars[(n % 10) + 1]>>

-----------------------------------------------------------------------------
(* The two regular expressions                                             *)

\* where  \s+(\w+)\s+-\s+(.*)  ends up when tried right after index k of line:
\* every quantifier is greedy and no shorter choice can succeed, so the
\* positions are determined
TailOf(line, k) ==
    LET a == SpanEnd(line, k + 1, "space")
        b == SpanEnd(line, a, "word")
        c == SpanEnd(line, b, "space")
        d == SpanEnd(line, c + 1, "space")
    IN  [ok |-> /\ a > k + 1
                /\ b > a
                /\ c > b
                /\ c <= Len(line)
                /\ line[c] = "-"
                /\ d > c + 1,
         level   |-> SubSeq(line, a, b - 1),
         message |-> SubSeq(line, d, Len(line))]

\* re.compile(r'\[(.*?)\]\s+(\w+)\s+-\s+(.*)').match(line): the lazy group
\* grows one character at a time until the rest of the pattern matches
pattern_match(line) ==
    LET K == {k \in 2..Len(line) : line[k] = "]" /\ TailOf(line, k).ok}
        k0 == CHOOSE k \in K : \A m \in K : k <= m
    IN  IF Len(line) >= 1 /\ line[1] = "[" /\ K # {}
        THEN <<SubSeq(line, 2, k0 - 1), TailOf(line, k0).level,
               TailOf(line, k0).message>>
        ELSE None

AgentResponse == <<"A", "g", "e", "n", "t", " ", "R", "e", "s", "p", "o", "n", "s", "e", ":">>

\* the attempt of  Agent Response:\s*"(.+?)"  at index p of message: the marker,
\* the whitespace, the opening quote, then at least one character up to the
\* first later quote
ResponseAt(message, p) ==
    LET q == SpanEnd(message, p + Len(AgentResponse), "space")
        R == {r \in (q + 2)..Len(message) : message[r] = "\""}
        r0 == CHOOSE r \in R : \A m \in R : r <= m
    IN  [ok |-> /\ p + Len(AgentResponse) - 1 <= Len(message)
                /\ SubSeq(message, p, p + Len(AgentResponse) - 1) = AgentResponse
                /\ q <= Len(message)
                /\ message[q] = "\""
                /\ R # {},
         text |-> IF R = {} THEN <<>> ELSE SubSeq(message, q + 1, r0 - 1)]

\* re.search(r'Agent Response:\s*"(.+?)"', message): the leftmost attempt that succeeds
response_search(message) ==
    LET P == {p \in 1..Len(message) :
                 message[p] = AgentResponse[1] /\ ResponseAt(message, p).ok}
        p0 == CHOOSE p \in P : \A m \in P : p <= m
    IN  IF P # {} THEN <<ResponseAt(message, p0).text>> ELSE None

-----------------------------------------------------------------------------
(* collections.Counter                                                     *)

\* counter.get(key, 0)
Count(counter, key) ==
    IF \E i \in 1..Len(counter) : counter[i].key = key
    THEN counter[CHOOSE i \in 1..Len(counter) : counter[i].key = key].n
    ELSE 0

\* the slip  counter[key] = 1  for  counter[key] += 1
IncrementAssign(counter, key) ==
    IF \E i \in 1..Len(counter) : counter[i].key = key
    THEN [i \in 1..Len(counter) |->
            IF counter[i].key = key THEN [key |-> key, n |-> 1] ELSE counter[i]]
    ELSE Append(counter, [key |-> key, n |-> 1])

\* counter[key] += 1: a new key goes last in the iteration order
Increment(counter, key) ==
    IF \E i \in 1..Len(counter) : counter[i].key = key
    THEN [i \in 1..Len(counter) |->
            IF counter[i].key = key
            THEN [key |-> key, n |-> counter[i].n + 1]
            ELSE counter[i]]
    ELSE Append(counter, [key |-> key, n |-> 1])

\* the slip of a sort that puts the later of two items of equal count first
SortedByCountLaterFirst(counter) ==
    LET Before(i, j) == \/ counter[i].n > counter[j].n
                        \/ counter[i].n = counter[j].n /\ i > j
        Place(i) == 1 + Cardinality({j \in 1..Len(counter) : Before(j, i)})
    IN  [r \in 1..Len(counter) |->
            counter[CHOOSE i \in 1..Len(counter) : Place(i) = r]]

\* sorted(counter.items(), key=itemgetter(1), reverse=True): a stable sort, so
\* items of equal count stay in iteration order
SortedByCount(counter) ==
    LET Before(i, j) == \/ counter[i].n > counter[j].n
                        \/ counter[i].n = counter[j].n /\ i < j
        Place(i) == 1 + Cardinality({j \in 1..Len(counter) : Before(j, i)})
    IN  [r \in 1..Len(counter) |->
            counter[CHOOSE i \in 1..Len(counter) : Place(i) = r]]

\* counter.most_common(n) is heapq.nlargest(n, items, key=itemgetter(1)),
\* which is sorted(items, key=..., reverse=True)[:n]
most_common(counter, n) ==
    LET all == SortedByCount(counter)
    IN  SubSeq(all, 1, IF n < Len(all) THEN n ELSE Len(all))

\* the slip of cutting the errors at the default top_errors
MostCommonTwo(counter) == most_common(counter, 2)

\* counter.most_common()
most_common_all(counter) == SortedByCount(counter)

-----------------------------------------------------------------------------
(* The report                                                              *)

INFO == <<"I", "N", "F", "O">>
ERROR == <<"E", "R", "R", "O", "R">>
WARNING == <<"W", "A", "R", "N", "I", "N", "G">>

LogSummary == <<"L", "o", "g", " ", "S", "u", "m", "m", "a", "r", "y", ":">>
TopResponsesHeader == <<"T", "o", "p", " ", "3", " ", "A", "I", " ", "R", "e", "s", "p", "o", "n", "s", "e", "s", ":">>
MostCommonErrors == <<"M", "o", "s", "t", " ", "C", "o", "m", "m", "o", "n", " ", "E", "r", "r", "o", "r", "s", ":">>

\* the n of ai_response_counter.most_common(n)
ResponsesListed == 3

\* An element of output_lines is kept as the f-string that made it: which
\* template, and the values put into it.  FormatLine is the resulting str.
Literal(text) == [kind |-> "literal", rank |-> 0, text |-> text, count |-> 0]
LevelLine(level, n) == [kind |-> "level", rank |-> 0, text |-> level, count |-> n]
ResponseLine(i, response, n) == [kind |-> "response", rank |-> i, text |-> response, count |-> n]
ErrorLine(i, error, n) == [kind |-> "error", rank |-> i, text |-> error, count |-> n]

Times(n) == <<" ", "(">> \o str(n) \o <<" ", "t", "i", "m", "e", "s", ")">>

FormatLine(l) ==
    CASE l.kind = "literal"  -> l.text
      [] l.kind = "level"    -> <<"-", " ">> \o l.text
                                \o <<" ", "m", "e", "s", "s", "a", "g", "e", "s", ":", " ">>
                                \o str(l.count)
      [] l.kind = "response" -> str(l.rank) \o <<".", " ", "\"">> \o l.text \o <<"\"">>
                                \o Times(l.count)
      [] l.kind = "error"    -> str(l.rank) \o <<".", " ">> \o l.text \o Times(l.count)

\* for i, (response, count) in enumerate(items, 1): one output line each
ResponseLines(items) ==
    [i \in 1..Len(items) |-> ResponseLine(i, items[i].key, items[i].n)]

\* for i, (error, count) in enumerate(items, 1): one output line each
ErrorLines(items) ==
    [i \in 1..Len(items) |-> ErrorLine(i, items[i].key, items[i].n)]

\* the slip of printing a count line per severity seen, not the three named ones
BuildOutputOfSeen(levels, responses, errors) ==
    <<Literal(LogSummary)>>
    \o [i \in 1..Len(levels) |-> LevelLine(levels[i].key, levels[i].n)]
    \o <<Literal(<<>>), Literal(TopResponsesHeader)>>
    \o ResponseLines(most_common(responses, ResponsesListed))
    \o <<Literal(<<>>), Literal(MostCommonErrors)>>
    \o ErrorLines(most_common_all(errors))

\* output_lines as parse_agent_logs builds it from the three counters
BuildOutput(levels, responses, errors) ==
    <<Literal(LogSummary),
      LevelLine(INFO, Count(levels, INFO)),
      LevelLine(ERROR, Count(levels, ERROR)),
      LevelLine(WARNING, Count(levels, WARNING)),
      Literal(<<>>),
      Literal(TopResponsesHeader)>>
    \o ResponseLines(most_common(responses, ResponsesListed))
    \o <<Literal(<<>>), Literal(MostCommonErrors)>>
    \o ErrorLines(most_common_all(errors))

\* "\n".join(output_lines)
JoinOutput(lines) == join(<<"\n">>, [i \in 1..Len(lines) |-> FormatLine(lines[i])])

-----------------------------------------------------------------------------
(* Operations                                                              *)

\* read_file(file_path): the contents of the one log file
read_file == file

\* report = analyze_logs(log_file_path, top_responses, top_errors)
analyze_logs ==
    /\ pc = "main"
    /\ report' = read_file
    /\ pc' = "parse"
    /\ UNCHANGED <<file, top_responses, top_errors, log_lines, idx, match,
                   level_counter, ai_response_counter, error_counter,
                   output_lines, final_output>>

\* parse_agent_logs(report), up to the loop
parse_agent_logs ==
    /\ pc = "parse"
    /\ log_lines' = splitlines(report)
    /\ level_counter' = <<>>
    /\ ai_response_counter' = <<>>
    /\ error_counter' = <<>>
    /\ idx' = 1
    /\ pc' = "loop"
    /\ UNCHANGED <<file, top_responses, top_errors, report, match,
                   output_lines, final_output>>

InLoop == pc = "loop" /\ idx <= Len(log_lines)

\* the line the next iteration works on
line == strip(log_lines[idx])

\* if not line: continue
SkipBlank ==
    /\ InLoop
    /\ line = <<>>
    /\ idx' = idx + 1
    /\ match' = None
    /\ UNCHANGED <<pc, file, top_responses, top_errors, report, log_lines,
                   level_counter, ai_response_counter, error_counter,
                   output_lines, final_output>>

\* the slip of counting a line that is no entry under a severity of its own
SkipUnmatchedCounted ==
    /\ InLoop
    /\ line # <<>>
    /\ pattern_match(line) = None
    /\ level_counter' = Increment(level_counter, <<"U", "N", "K", "N", "O", "W", "N">>)
    /\ idx' = idx + 1
    /\ match' = None
    /\ UNCHANGED <<pc, file, top_responses, top_errors, report, log_lines,
                   ai_response_counter, error_counter, output_lines, final_output>>

\* the pattern does not match: nothing is done with the line
SkipUnmatched ==
    /\ InLoop
    /\ line # <<>>
    /\ pattern_match(line) = None
    /\ idx' = idx + 1
    /\ match' = None
    /\ UNCHANGED <<pc, file, top_responses, top_errors, report, log_lines,
                   level_counter, ai_response_counter, error_counter,
                   output_lines, final_output>>

\* the slip of leaving out the test of the level
TallyResponseAnyLevel(counter, level, message) ==
    IF Contains(message, AgentResponse) /\ response_search(message) # None
    THEN Increment(counter, response_search(message)[1])
    ELSE counter

\* the response counter after an entry of this level and message
TallyResponse(counter, level, message) ==
    IF level = INFO /\ Contains(message, AgentResponse)
                    /\ response_search(message) # None
    THEN Increment(counter, response_search(message)[1])
    ELSE counter

\* the error counter after an entry of this level and message
TallyError(counter, level, message) ==
    IF level = ERROR THEN Increment(counter, message) ELSE counter

\* the pattern matches: the entry is tallied
TallyEntry ==
    /\ InLoop
    /\ line # <<>>
    /\ pattern_match(line) # None
    /\ match' = pattern_match(line)
    /\ level_counter' = Increment(level_counter, match'[2])
    /\ ai_response_counter' = TallyResponse(ai_response_counter, match'[2], match'[3])
    /\ error_counter' = TallyError(error_counter, match'[2], match'[3])
    /\ idx' = idx + 1
    /\ UNCHANGED <<pc, file, top_responses, top_errors, report, log_lines,
                   output_lines, final_output>>

\* after the loop: the output lines, joined, are returned and printed
Render ==
    /\ pc = "loop"
    /\ idx > Len(log_lines)
    /\ output_lines' = BuildOutput(level_counter, ai_response_counter, error_counter)
    /\ final_output' = JoinOutput(output_lines')
    /\ pc' = "done"
    /\ UNCHANGED <<file, top_responses, top_errors, report, log_lines, idx,
                   match, level_counter, ai_response_counter, error_counter>>

Next ==
    \/ analyze_logs
    \/ parse_agent_logs
    \/ SkipBlank
    \/ SkipUnmatched
    \/ TallyEntry
    \/ Render

-----------------------------------------------------------------------------
(* Log files                                                               *)

Quoted(text) == <<"\"">> \o text \o <<"\"">>

\* "<stamp> <level> - <message>"
Entry(stamp, level, message) ==
    stamp \o <<" ">> \o level \o <<" ", "-", " ">> \o message

Stamp == <<"[", "T", "]">>

Response(text) == AgentResponse \o <<" ">> \o Quoted(text)

\* at most this many lines in a log file of mixed lines
MaxLines == 3

\* at most this many lines in a log file of responses and errors
MaxRanked == 4

\* the files of at most n lines, each line one of Lines
Files(Lines, n) ==
    {join(<<"\n">>, ls) : ls \in UNION {[1..k -> Lines] : k \in 0..n}}

\* (top_responses, top_errors): the defaults of analyze_logs
Defaults == <<3, 2>>

\* a call that asks for four responses
FourResponses == <<4, 2>>

InitWith(files, arguments) ==
    /\ pc = "main"
    /\ file \in files
    /\ \E a \in arguments : top_responses = a[1] /\ top_errors = a[2]
    /\ report = <<>>
    /\ log_lines = <<>>
    /\ idx = 0
    /\ match = None
    /\ level_counter = <<>>
    /\ ai_response_counter = <<>>
    /\ error_counter = <<>>
    /\ output_lines = <<>>
    /\ final_output = <<>>

\* lines of every severity, a blank one and one without its timestamp
MixedLines ==
    { Entry(Stamp, INFO, Response(<<"a">>)),
      Entry(Stamp, INFO, Response(<<"b">>)),
      Entry(Stamp, ERROR, <<"E", "1">>),
      <<" ">> \o Entry(Stamp, ERROR, <<"E", "2">>) \o <<" ">>,
      Entry(Stamp, WARNING, <<"w">>),
      Entry(Stamp, <<"i", "n", "f", "o">>, Response(<<"a">>)),
      <<" ", " ">>,
      Entry(<<"T">>, INFO, <<"x">>) }

Init == InitWith(Files(MixedLines, MaxLines), {Defaults, FourResponses})

Spec == Init /\ [][Next]_vars

\* One-line files put together from pieces, so that every part of the entry
\* shape is there, missing, or misplaced
Heads == {Stamp, <<"[", "a", "]", "b", "]">>, <<"[", "]">>, <<"[", "T">>, <<"T">>, <<>>}
Gaps == {<<" ">>, <<>>}
Levels == {INFO, ERROR, <<"i", "n", "f", "o">>, <<>>}
Dashes == {<<" ", "-", " ">>, <<" ", "-">>, <<"-", " ">>, <<" ", "-", "\t", " ">>, <<>>}
Messages ==
    { <<>>,
      <<"x">>,
      Response(<<"a">>),
      AgentResponse \o Quoted(<<"a">>) \o <<" ">> \o Quoted(<<"b">>),
      AgentResponse \o <<" ">> \o Quoted(<<>>) \o <<" ", "x", " ">> \o Quoted(<<"y">>),
      AgentResponse \o <<" ", "a">>,
      AgentResponse \o <<" ", "\"", "a">>,
      AgentResponse \o <<" ", "x", " ">> \o Response(<<"y">>),
      Quoted(<<"a">>) \o <<" ">> \o AgentResponse }
Margins == {<<>>, <<" ">>}

ShapeLines ==
    { pre \o head \o gap \o level \o dash \o message \o post :
        pre \in Margins, head \in Heads, gap \in Gaps, level \in Levels,
        dash \in Dashes, message \in Messages, post \in Margins }

InitShapes == InitWith(ShapeLines, {Defaults, FourResponses})

SpecShapes == InitShapes /\ [][Next]_vars

\* Files for the two rankings: four responses and three errors in any order
\* and number, and short files that also hold a blank line or a line
\* without its timestamp; analyze_logs is asked for four responses
RankedLines ==
    { Entry(Stamp, INFO, Response(<<"a">>)),
      Entry(Stamp, INFO, Response(<<"b">>)),
      Entry(Stamp, INFO, Response(<<"c">>)),
      Entry(Stamp, INFO, Response(<<"d">>)),
      Entry(Stamp, ERROR, <<"E", "1">>),
      Entry(Stamp, ERROR, <<"E", "2">>),
      Entry(Stamp, ERROR, <<"E", "3">>) }

InitRanked ==
    InitWith(Files(RankedLines, MaxRanked)
             \cup Files(RankedLines \cup {<<>>, Entry(<<"T">>, INFO, <<"x">>)}, 2),
             {FourResponses})

SpecRanked == InitRanked /\ [][Next]_vars

-----------------------------------------------------------------------------
(* What the claims speak of                                                *)

\* the tallies parse_agent_logs ends its loop with, for these lines
RECURSIVE Tallies(_)
Tallies(lines) ==
    IF lines = <<>>
    THEN [levels |-> <<>>, responses |-> <<>>, errors |-> <<>>]
    ELSE LET prev == Tallies(SubSeq(lines, 1, Len(lines) - 1))
             l == strip(lines[Len(lines)])
             m == pattern_match(l)
         IN  IF l = <<>> \/ m = None THEN prev
             ELSE [levels    |-> Increment(prev.levels, m[2]),
                   responses |-> TallyResponse(prev.responses, m[2], m[3]),
                   errors    |-> TallyError(prev.errors, m[2], m[3])]

RECURSIVE SumCounts(_)
SumCounts(counter) ==
    IF counter = <<>> THEN 0 ELSE counter[1].n + SumCounts(Tail(counter))

Keys(counter) == {counter[i].key : i \in 1..Len(counter)}

NamedLevels == {INFO, ERROR, WARNING}

\* the groups of every line of log_lines, None for a line that is no entry
ParsedLines ==
    [i \in 1..Len(log_lines) |-> pattern_match(strip(log_lines[i]))]

\* of the parsed lines P, those the loop has gone through and tallied
Entries(P) ==
    {i \in 1..Len(P) : i < idx /\ pc \in {"loop", "done"} /\ P[i] # None}

\* the entries of this severity token
EntriesOfLevel(P, level) == {i \in Entries(P) : P[i][2] = level}

\* the entries that are ERROR entries with this message
ErrorsWith(P, message) == {i \in EntriesOfLevel(P, ERROR) : P[i][3] = message}

\* the response the code takes from each parsed line, as a tuple, None if it
\* takes none
ResponsesOf(P) ==
    [i \in 1..Len(P) |->
        IF P[i] = None THEN None
        ELSE LET c == TallyResponse(<<>>, P[i][2], P[i][3])
             IN  IF c = <<>> THEN None ELSE <<c[1].key>>]

\* the entries from which this response is taken, RK being ResponsesOf(P)
ResponsesWith(P, RK, text) == {i \in Entries(P) : RK[i] = <<text>>}

First(S) == CHOOSE i \in S : \A j \in S : i <= j

\* the sections of the rendered report
ListedResponses == SelectSeq(output_lines, LAMBDA l : l.kind = "response")
ListedErrors == SelectSeq(output_lines, LAMBDA l : l.kind = "error")

StartsWith(s, x) == Len(s) >= Len(x) /\ SubSeq(s, 1, Len(x)) = x
EndsWith(s, x) == Len(s) >= Len(x) /\ SubSeq(s, Len(s) - Len(x) + 1, Len(s)) = x

\* a header naming the response section
IsResponsesHeader(l) ==
    /\ StartsWith(l, <<"T", "o", "p", " ">>)
    /\ EndsWith(l, <<" ", "A", "I", " ", "R", "e", "s", "p", "o", "n", "s", "e", "s", ":">>)

Min(a, b) == IF a < b THEN a ELSE b

-----------------------------------------------------------------------------
(* C1: the value analyze_logs returns is the formatted report of the file: *)
(* the 'Log Summary:' header, the INFO, ERROR and WARNING count lines with *)
(* the counts of the file's entries, a 'Top ... AI Responses:' header and  *)
(* a 'Most Common Errors:' header.                                         *)
C1_AnalyzeLogsReturnsReport ==
    pc # "main" =>
        LET ls == splitlines(report)
            t  == Tallies(splitlines(file))
        IN  /\ Len(ls) >= 8
            /\ ls[1] = LogSummary
            /\ ls[2] = FormatLine(LevelLine(INFO, Count(t.levels, INFO)))
            /\ ls[3] = FormatLine(LevelLine(ERROR, Count(t.levels, ERROR)))
            /\ ls[4] = FormatLine(LevelLine(WARNING, Count(t.levels, WARNING)))
            /\ \E i \in 1..Len(ls) : IsResponsesHeader(ls[i])
            /\ \E i \in 1..Len(ls) : ls[i] = MostCommonErrors

(* C2: the report lists exactly min(top_responses, number of distinct      *)
(* responses taken from the log) response entries.                         *)
C2_TopResponsesBoundsListing ==
    pc = "done" =>
        LET P  == ParsedLines
            RK == ResponsesOf(P)
        IN  Len(ListedResponses)
                = Min(top_responses,
                      Cardinality({RK[i] : i \in Entries(P)} \ {None}))

(* C3: the counts of the severity tally sum to the number of non-blank     *)
(* lines gone through that match the pattern, and each token's count is    *)
(* the number of those lines that carry the token (so each matching line   *)
(* adds exactly 1 to exactly one count).                                   *)
C3_SeverityTallyCountsEntries ==
    pc \in {"loop", "done"} =>
        LET P == ParsedLines
        IN  /\ SumCounts(level_counter) = Cardinality(Entries(P))
            /\ \A k \in 1..Len(level_counter) :
                  level_counter[k].n
                      = Cardinality(EntriesOfLevel(P, level_counter[k].key))
            /\ Cardinality(Keys(level_counter)) = Len(level_counter)

C3_Witness ==
    /\ pc = "done"
    /\ SumCounts(level_counter) >= 2
    /\ Len(log_lines) > SumCounts(level_counter)
    /\ \E k \in Keys(level_counter) : k \notin NamedLevels

\* a listed entry of count n1, first seen at line f1, stands rightly before
\* one of count n2 first seen at line f2
RanksBefore(n1, f1, n2, f2) == n1 > n2 \/ (n1 = n2 /\ f1 < f2)

(* C4: in the response section and in the error section the entries are in *)
(* descending order of count, entries of equal count in the order of their *)
(* first occurrence in the input; they are numbered from 1; and a response *)
(* left out by the truncation ranks after every listed one.                *)
C4_RankingIsStable ==
    pc = "done" =>
        LET R  == ListedResponses
            E  == ListedErrors
            P  == ParsedLines
            RK == ResponsesOf(P)
            FirstR == [i \in 1..Len(R) |-> First(ResponsesWith(P, RK, R[i].text))]
            FirstE == [i \in 1..Len(E) |-> First(ErrorsWith(P, E[i].text))]
            Unlisted == {RK[i][1] : i \in {j \in Entries(P) : RK[j] # None}}
                            \ {R[i].text : i \in 1..Len(R)}
        IN  /\ \A i \in 1..Len(R) : R[i].rank = i
            /\ \A i \in 1..Len(E) : E[i].rank = i
            /\ \A i, j \in 1..Len(R) :
                  i < j => RanksBefore(R[i].count, FirstR[i], R[j].count, FirstR[j])
            /\ \A i, j \in 1..Len(E) :
                  i < j => RanksBefore(E[i].count, FirstE[i], E[j].count, FirstE[j])
            /\ \A i \in 1..Len(R) : \A u \in Unlisted :
                  RanksBefore(R[i].count, FirstR[i],
                              Cardinality(ResponsesWith(P, RK, u)),
                              First(ResponsesWith(P, RK, u)))

\* a tie among the listed responses, a response cut off, and a tie among the errors
C4_Witness ==
    /\ pc = "done"
    /\ Len(ai_response_counter) > Len(ListedResponses)
    /\ \E i, j \in 1..Len(ListedResponses) :
          i < j /\ ListedResponses[i].count = ListedResponses[j].count

HasEntryShape(l) ==
    /\ Len(l) >= 1
    /\ l[1] = "["
    /\ \E k \in 2..Len(l) :
          /\ l[k] = "]"
          /\ LET a == SpanEnd(l, k + 1, "space")
                 b == SpanEnd(l, a, "word")
                 c == SpanEnd(l, b, "space")
             IN  a > k + 1 /\ b > a /\ c > b /\ c <= Len(l) /\ l[c] = "-"

(* C6: an iteration over a line that is blank after stripping, or that has *)
(* not the shape of an entry, leaves the three tallies as they were and    *)
(* goes on to the next line.                                               *)
C6_SkippedLinesChangeNothing ==
    [][ (InLoop /\ (line = <<>> \/ ~HasEntryShape(line)))
            => /\ UNCHANGED <<level_counter, ai_response_counter, error_counter>>
               /\ pc' = "loop"
               /\ idx' = idx + 1 ]_vars

\* a blank line and a line without its timestamp were gone through, among entries
C6_Witness ==
    /\ pc = "done"
    /\ level_counter # <<>>
    /\ \E i \in 1..Len(log_lines) : strip(log_lines[i]) = <<>>
    /\ \E i \in 1..Len(log_lines) :
          strip(log_lines[i]) # <<>> /\ ~HasEntryShape(strip(log_lines[i]))

(* C7: for an empty file the report is the summary header, the INFO, ERROR *)
(* and WARNING lines with count 0, the response header with no entry, and  *)
(* the error header with no entry.                                         *)
C7_EmptyInputReport ==
    (pc = "done" /\ file = <<>>) =>
        LET ls == splitlines(final_output)
        IN  /\ ListedResponses = <<>>
            /\ ListedErrors = <<>>
            /\ Len(ls) = 8
            /\ ls[1] = LogSummary
            /\ ls[2] = <<"-", " ", "I", "N", "F", "O", " ", "m", "e", "s", "s", "a", "g", "e", "s", ":", " ", "0">>
            /\ ls[3] = <<"-", " ", "E", "R", "R", "O", "R", " ", "m", "e", "s", "s", "a", "g", "e", "s", ":", " ", "0">>
            /\ ls[4] = <<"-", " ", "W", "A", "R", "N", "I", "N", "G", " ", "m", "e", "s", "s", "a", "g", "e", "s", ":", " ", "0">>
            /\ ls[5] = <<>>
            /\ IsResponsesHeader(ls[6])
            /\ ls[7] = <<>>
            /\ ls[8] = MostCommonErrors

C7_Witness == pc = "done" /\ file = <<>> /\ final_output # <<>>

(* C8: an iteration over an entry whose severity token is none of INFO,    *)
(* ERROR, WARNING adds 1 to the count of that token, leaves the three      *)
(* named counts as they were, and leaves the response and error tallies    *)
(* as they were.                                                           *)
C8_OtherSeverityOnlyCounted ==
    [][ (InLoop /\ pattern_match(line) # None
                /\ pattern_match(line)[2] \notin NamedLevels)
            => /\ Count(level_counter', pattern_match(line)[2])
                    = Count(level_counter, pattern_match(line)[2]) + 1
               /\ \A l \in NamedLevels :
                     Count(level_counter', l) = Count(level_counter, l)
               /\ UNCHANGED <<ai_response_counter, error_counter>> ]_vars

\* an entry of another severity, with a response in its message, among named ones
C8_Witness ==
    /\ pc = "done"
    /\ \E i \in Entries(ParsedLines) :
          /\ ParsedLines[i][2] \notin NamedLevels
          /\ Contains(ParsedLines[i][3], AgentResponse \o <<" ", "\"">>)
    /\ Count(level_counter, INFO) > 0
    /\ ai_response_counter # <<>>

\* the text from index p of s up to the next double quote, None if there is none
QuotedFrom(s, p) ==
    LET R == {r \in p..Len(s) : s[r] = "\""}
    IN  IF R = {} THEN None ELSE <<SubSeq(s, p, First(R) - 1)>>

\* the text between the first pair of double quotes after the first marker
FirstQuotedSpan(message) ==
    LET P == {p \in 1..Len(message) :
                 /\ p + Len(AgentResponse) - 1 <= Len(message)
                 /\ SubSeq(message, p, p + Len(AgentResponse) - 1) = AgentResponse}
        Q == {q \in (First(P) + Len(AgentResponse))..Len(message) : message[q] = "\""}
    IN  IF P = {} \/ Q = {} THEN None ELSE QuotedFrom(message, First(Q) + 1)

(* C9: every key of the response tally is the text between the first pair  *)
(* of double quotes after the marker of an INFO entry, so it holds no      *)
(* double quote; and if no INFO entry has a quoted span after its marker,  *)
(* no response is recorded.                                                *)
C9_ResponseKeyIsFirstQuotedSpan ==
    pc \in {"loop", "done"} =>
        LET P == ParsedLines
            Spans == {FirstQuotedSpan(P[i][3]) : i \in EntriesOfLevel(P, INFO)} \ {None}
        IN  /\ \A key \in Keys(ai_response_counter) :
                  /\ \A k \in 1..Len(key) : key[k] # "\""
                  /\ <<key>> \in Spans
            /\ Spans = {} => ai_response_counter = <<>>

\* the claimed shape of an entry: a timestamp without ']' in brackets, a
\* severity token of word characters, the dash, and the message
ClaimedShape(l) ==
    LET K == {k \in 2..Len(l) : l[k] = "]"}
        k == First(K)
        a == SpanEnd(l, k + 1, "space")
        b == SpanEnd(l, a, "word")
        c == SpanEnd(l, b, "space")
    IN  IF Len(l) >= 1 /\ l[1] = "[" /\ K # {}
           /\ a > k + 1 /\ b > a /\ c > b /\ c <= Len(l) /\ l[c] = "-"
           /\ (c = Len(l) \/ IsSpace(l[c + 1]))
        THEN <<SubSeq(l, 2, k - 1), SubSeq(l, a, b - 1),
               SubSeq(l, SpanEnd(l, c + 1, "space"), Len(l))>>
        ELSE None

(* C10: the line last gone through was taken as an entry exactly when it   *)
(* has the claimed shape, and then its timestamp holds no ']' and its      *)
(* message is all that follows the dash separator (which may be nothing).  *)
C10_ClassifiedExactlyByShape ==
    (pc \in {"loop", "done"} /\ idx > 1 /\ strip(log_lines[idx - 1]) # <<>>) =>
        LET shape == ClaimedShape(strip(log_lines[idx - 1]))
        IN  /\ (match # None) <=> (shape # None)
            /\ match # None =>
                  /\ \A k \in 1..Len(match[1]) : match[1][k] # "]"
                  /\ match[3] = shape[3]

====
